---- MODULE Spec2Model ----
(***************************************************************************)
(* Model of burncloud-auto-update: the UpdateConfig record and its         *)
(* builders (config.rs), the error conversion (error.rs) and the           *)
(* AutoUpdater operations (updater.rs).                                    *)
(*                                                                         *)
(* Strings are sequences of one-character strings, so that prefix          *)
(* stripping, URL formatting and version parsing are computed character    *)
(* by character.  The release lister and the update executor are inputs:   *)
(* every call draws one response of the collaborator.                      *)
(***************************************************************************)
EXTENDS Integers, Sequences, FiniteSets, TLC

VARIABLES
    config,     \* AutoUpdater.config, the held UpdateConfig
    op,         \* the operation that ran last
    response,   \* what the collaborator answered to that operation
    result,     \* what the operation returned to its caller
    requests,   \* collaborator requests (fetch / update) the operation made
    arg,        \* the argument of that operation (set_config), if any
    draft,      \* an UpdateConfig value being built by the caller
    prev,       \* that value before the last builder call
    builder     \* the last builder call and its arguments

vars == <<config, op, response, result, requests, arg, draft, prev, builder>>

updaterVars == <<config, op, response, result, requests, arg>>
builderVars == <<draft, prev, builder>>

(***************************************************************************)
(* Bounds                                                                  *)
(***************************************************************************)
\* longest release list the lister returns
MaxReleases == 2

(***************************************************************************)
(* Strings                                                                 *)
(***************************************************************************)
Digits == {"0", "1", "2", "3", "4", "5", "6", "7", "8", "9"}

DigitVal(c) ==
    CASE c = "0" -> 0 [] c = "1" -> 1 [] c = "2" -> 2 [] c = "3" -> 3
      [] c = "4" -> 4 [] c = "5" -> 5 [] c = "6" -> 6 [] c = "7" -> 7
      [] c = "8" -> 8 [] c = "9" -> 9

\* ASCII code of the characters that occur in identifiers
CharCode(c) ==
    CASE c = "-" -> 45
      [] c \in Digits -> 48 + DigitVal(c)
      [] c = "V" -> 86
      [] c = "a" -> 97  [] c = "b" -> 98  [] c = "e" -> 101
      [] c = "l" -> 108 [] c = "r" -> 114 [] c = "s" -> 115
      [] c = "t" -> 116 [] c = "v" -> 118

\* characters a pre-release identifier may contain: [0-9A-Za-z-]
IdentChars == Digits \cup {"-", "V", "a", "b", "e", "l", "r", "s", "t", "v"}

Burncloud == <<"b", "u", "r", "n", "c", "l", "o", "u", "d">>

S_0_1_0      == <<"0", ".", "1", ".", "0">>
S_1_0_0      == <<"1", ".", "0", ".", "0">>
S_1_2_0      == <<"1", ".", "2", ".", "0">>
S_1_10_0     == <<"1", ".", "1", "0", ".", "0">>
S_2_0_0      == <<"2", ".", "0", ".", "0">>
S_1_0_0_2    == S_1_0_0 \o <<"-", "2">>
S_1_0_0_10   == S_1_0_0 \o <<"-", "1", "0">>
S_1_0_0_a    == S_1_0_0 \o <<"-", "a">>
S_1_0_0_a_1  == S_1_0_0 \o <<"-", "a", ".", "1">>
S_1_0_0_b    == S_1_0_0 \o <<"-", "b">>
S_latest     == <<"l", "a", "t", "e", "s", "t">>
S_r123       == <<"r", "1", "2", "3">>
S_1_0        == <<"1", ".", "0">>
S_01_0_0     == <<"0", "1", ".", "0", ".", "0">>
S_V1_0_0     == <<"V">> \o S_1_0_0
S_vv1_0_0    == <<"v", "v">> \o S_1_0_0
S_v          == <<"v">>
S_empty      == <<>>

\* valid semantic versions, in ascending semantic-version precedence
Chain == <<S_0_1_0, S_1_0_0_2, S_1_0_0_10, S_1_0_0_a, S_1_0_0_a_1, S_1_0_0_b,
           S_1_0_0, S_1_2_0, S_1_10_0, S_2_0_0>>

ChainSet == {Chain[i] : i \in DOMAIN Chain}

\* the version strings a configuration or a release tag may carry
VersionStrings ==
    ChainSet \cup {<<"v">> \o s : s \in ChainSet}
             \cup {S_latest, S_r123, S_1_0, S_01_0_0, S_V1_0_0, S_vv1_0_0,
                   S_v, S_empty}

(***************************************************************************)
(* str::trim_start_matches('v')                                            *)
(***************************************************************************)
RECURSIVE trim_start_matches_v(_)
trim_start_matches_v(s) ==
    IF Len(s) > 0 /\ Head(s) = "v" THEN trim_start_matches_v(Tail(s)) ELSE s

(***************************************************************************)
(* semver::Version::parse and the ordering of semver::Version              *)
(***************************************************************************)
RECURSIVE Split(_, _)
Split(s, sep) ==
    IF \A i \in 1..Len(s) : s[i] /= sep
    THEN <<s>>
    ELSE LET k == CHOOSE i \in 1..Len(s) :
                      s[i] = sep /\ \A j \in 1..(i - 1) : s[j] /= sep
         IN  <<SubSeq(s, 1, k - 1)>> \o Split(SubSeq(s, k + 1, Len(s)), sep)

IsNumeric(p) == Len(p) > 0 /\ \A i \in 1..Len(p) : p[i] \in Digits

\* a numeric field: digits only, no leading zero
NumericOk(p) == IsNumeric(p) /\ (Len(p) = 1 \/ p[1] /= "0")

RECURSIVE NumVal(_)
NumVal(p) ==
    IF Len(p) = 0 THEN 0
    ELSE 10 * NumVal(SubSeq(p, 1, Len(p) - 1)) + DigitVal(p[Len(p)])

\* a pre-release identifier: non-empty, [0-9A-Za-z-], numeric without leading zero
IdentOk(p) ==
    /\ Len(p) > 0
    /\ \A i \in 1..Len(p) : p[i] \in IdentChars
    /\ (IsNumeric(p) => NumericOk(p))

ParseFailed == [ok |-> FALSE]

VersionParse(text) ==
    LET hasPre == \E i \in 1..Len(text) : text[i] = "-"
        dash   == IF hasPre
                  THEN CHOOSE i \in 1..Len(text) :
                           text[i] = "-" /\ \A j \in 1..(i - 1) : text[j] /= "-"
                  ELSE Len(text) + 1
        core   == Split(SubSeq(text, 1, dash - 1), ".")
        pre    == IF hasPre
                  THEN Split(SubSeq(text, dash + 1, Len(text)), ".")
                  ELSE <<>>
    IN  IF /\ Len(core) = 3
           /\ \A i \in 1..3 : NumericOk(core[i])
           /\ \A i \in 1..Len(pre) : IdentOk(pre[i])
        THEN [ok |-> TRUE, major |-> NumVal(core[1]), minor |-> NumVal(core[2]),
              patch |-> NumVal(core[3]), pre |-> pre]
        ELSE ParseFailed

\* -1, 0, 1: byte-wise comparison of two strings
RECURSIVE StrCmp(_, _)
StrCmp(x, y) ==
    IF Len(x) = 0 /\ Len(y) = 0 THEN 0
    ELSE IF Len(x) = 0 THEN -1
    ELSE IF Len(y) = 0 THEN 1
    ELSE IF CharCode(Head(x)) < CharCode(Head(y)) THEN -1
    ELSE IF CharCode(Head(x)) > CharCode(Head(y)) THEN 1
    ELSE StrCmp(Tail(x), Tail(y))

\* numeric identifiers by value and below alphanumeric ones, the rest byte-wise
IdentCmp(x, y) ==
    IF IsNumeric(x) /\ IsNumeric(y)
    THEN (IF NumVal(x) < NumVal(y) THEN -1 ELSE IF NumVal(x) > NumVal(y) THEN 1 ELSE 0)
    ELSE IF IsNumeric(x) THEN -1
    ELSE IF IsNumeric(y) THEN 1
    ELSE StrCmp(x, y)

RECURSIVE IdentsCmp(_, _)
IdentsCmp(p, q) ==
    IF Len(p) = 0 /\ Len(q) = 0 THEN 0
    ELSE IF Len(p) = 0 THEN -1
    ELSE IF Len(q) = 0 THEN 1
    ELSE IF IdentCmp(Head(p), Head(q)) /= 0 THEN IdentCmp(Head(p), Head(q))
    ELSE IdentsCmp(Tail(p), Tail(q))

\* a version without pre-release is above every pre-release of it
PreCmp(p, q) ==
    IF Len(p) = 0 /\ Len(q) = 0 THEN 0
    ELSE IF Len(p) = 0 THEN 1
    ELSE IF Len(q) = 0 THEN -1
    ELSE IdentsCmp(p, q)

\* latest > current on two parsed versions
VersionGreater(a, b) ==
    IF a.major /= b.major THEN a.major > b.major
    ELSE IF a.minor /= b.minor THEN a.minor > b.minor
    ELSE IF a.patch /= b.patch THEN a.patch > b.patch
    ELSE PreCmp(a.pre, b.pre) = 1

(***************************************************************************)
(* config.rs: UpdateConfig                                                 *)
(***************************************************************************)
\* env!("CARGO_PKG_VERSION") of the package burncloud-auto-update-0.1.0
CargoPkgVersion == S_0_1_0

UpdateConfig_default ==
    [github_owner |-> Burncloud, github_repo |-> Burncloud,
     bin_name |-> Burncloud, current_version |-> CargoPkgVersion]

UpdateConfig_new(github_owner, github_repo, bin_name, current_version) ==
    [github_owner |-> github_owner, github_repo |-> github_repo,
     bin_name |-> bin_name, current_version |-> current_version]

with_github_repo(self, owner, repo) ==
    [self EXCEPT !.github_owner = owner, !.github_repo = repo]

\* variant: rebuilds the record from the defaults, keeping only the repository
with_bin_name_from_default(self, name) ==
    [UpdateConfig_default EXCEPT !.github_owner = self.github_owner,
                                 !.github_repo = self.github_repo,
                                 !.bin_name = name]

with_bin_name(self, name) == [self EXCEPT !.bin_name = name]

with_current_version(self, version) == [self EXCEPT !.current_version = version]

HttpsPrefix == <<"h", "t", "t", "p", "s", ":", "/", "/">>
GithubHost  == <<"g", "i", "t", "h", "u", "b", ".", "c", "o", "m">>
GiteeHost   == <<"g", "i", "t", "e", "e", ".", "c", "o", "m">>
ReleasesSuffix == <<"/", "r", "e", "l", "e", "a", "s", "e", "s">>

github_releases_url(self) ==
    HttpsPrefix \o GithubHost \o <<"/">> \o self.github_owner \o <<"/">>
        \o self.github_repo \o ReleasesSuffix

\* variant: the host of the other link
gitee_releases_url_github_host(self) ==
    HttpsPrefix \o GithubHost \o <<"/">> \o self.github_owner \o <<"/">>
        \o self.github_repo \o ReleasesSuffix

gitee_releases_url(self) ==
    HttpsPrefix \o GiteeHost \o <<"/">> \o self.github_owner \o <<"/">>
        \o self.github_repo \o ReleasesSuffix

download_links(self) == <<github_releases_url(self), gitee_releases_url(self)>>

(***************************************************************************)
(* error.rs: UpdateError, UpdateResult                                     *)
(***************************************************************************)
UpdateErrorKinds ==
    {"Network", "GitHub", "Version", "FileSystem", "Permission",
     "Configuration", "Other", "Unknown"}

\* the variants of self_update::errors::Error the collaborators fail with
CollaboratorErrors == {"Network", "Release", "Io", "Config", "Update", "Json"}

Ok(v) == [ok |-> TRUE, value |-> v]
Err(kind, msg) == [ok |-> FALSE, kind |-> kind, msg |-> msg]

Unit == "()"
None == [some |-> FALSE]
Some(v) == [some |-> TRUE, val |-> v]

\* impl From<self_update::errors::Error> for UpdateError; msg is error.to_string()
UpdateError_from(error) ==
    CASE error = "Network" -> Err("Network", error)
      [] error = "Release" -> Err("GitHub", error)
      [] OTHER             -> Err("Unknown", error)

\* the message of the error raised on an empty release list
NoReleasesMsg == "no releases found"

(***************************************************************************)
(* The collaborators' responses                                            *)
(***************************************************************************)
OtherName == <<"o", "t", "h", "e", "r">>
AppName   == <<"a", "p", "p">>

ReleaseName == <<"R", "e", "l">>

\* the first (latest) release carries any tag; older ones are fixed
OlderRelease == [tag |-> S_0_1_0, name |-> ReleaseName]

RECURSIVE OlderReleases(_)
OlderReleases(n) == IF n = 0 THEN <<>> ELSE <<OlderRelease>> \o OlderReleases(n - 1)

ReleaseLists ==
    {<<>>} \cup
    {<<[tag |-> t, name |-> ReleaseName]>> \o OlderReleases(n) :
         t \in VersionStrings, n \in 0..(MaxReleases - 1)}

\* get_target(), build() or fetch() fails, or fetch() returns the list
ListerFailures ==
    {[ok |-> FALSE, stage |-> "get_target", error |-> "Update"],
     [ok |-> FALSE, stage |-> "build", error |-> "Config"],
     [ok |-> FALSE, stage |-> "fetch", error |-> "Network"],
     [ok |-> FALSE, stage |-> "fetch", error |-> "Release"],
     [ok |-> FALSE, stage |-> "fetch", error |-> "Json"]}

ListerResponses ==
    ListerFailures \cup {[ok |-> TRUE, releases |-> l] : l \in ReleaseLists}

\* get_target(), configure(), build() or update() fails, or update() returns a status
ExecutorFailures ==
    {[ok |-> FALSE, stage |-> "get_target", error |-> "Update"],
     [ok |-> FALSE, stage |-> "configure", error |-> "Config"],
     [ok |-> FALSE, stage |-> "build", error |-> "Config"],
     [ok |-> FALSE, stage |-> "update", error |-> "Network"],
     [ok |-> FALSE, stage |-> "update", error |-> "Release"],
     [ok |-> FALSE, stage |-> "update", error |-> "Io"],
     [ok |-> FALSE, stage |-> "update", error |-> "Update"]}

ExecutorResponses ==
    ExecutorFailures \cup
    {[ok |-> TRUE, updated |-> u, version |-> S_2_0_0] : u \in BOOLEAN}

NoResponse == [ok |-> TRUE, none |-> TRUE]
NoArg == <<>>

\* requests that reached the collaborator's service: fetch() or update() ran
RequestsMade(resp) ==
    IF resp.ok \/ resp.stage \in {"fetch", "update"} THEN 1 ELSE 0

(***************************************************************************)
(* updater.rs: AutoUpdater                                                 *)
(***************************************************************************)
\* variant: orders the versions when both parse
check_github_updates_ordered(self, resp) ==
    IF ~resp.ok THEN UpdateError_from(resp.error)
    ELSE IF Len(resp.releases) > 0
    THEN LET release_version == trim_start_matches_v(Head(resp.releases).tag)
             current_clean   == trim_start_matches_v(self.current_version)
             current == VersionParse(current_clean)
             latest  == VersionParse(release_version)
         IN  IF current.ok /\ latest.ok
             THEN Ok(VersionGreater(latest, current))
             ELSE Ok(release_version /= current_clean)
    ELSE Err("GitHub", NoReleasesMsg)

check_github_updates(self, resp) ==
    IF ~resp.ok THEN UpdateError_from(resp.error)
    ELSE IF Len(resp.releases) > 0
    THEN LET latest_release  == Head(resp.releases)
             release_version == trim_start_matches_v(latest_release.tag)
             current_clean   == trim_start_matches_v(self.current_version)
         IN  Ok(release_version /= current_clean)
    ELSE Err("GitHub", NoReleasesMsg)

check_for_updates(self, resp) ==
    LET r == check_github_updates(self, resp)
    IN  IF r.ok THEN Ok(r.value) ELSE r

update_from_github(self, resp) ==
    IF ~resp.ok THEN UpdateError_from(resp.error)
    ELSE IF resp.updated THEN Ok(Unit) ELSE Ok(Unit)

update_with_fallback(self, resp) ==
    LET r == update_from_github(self, resp)
    IN  IF r.ok THEN Ok(Unit) ELSE r

current_version(self) == self.current_version

get_download_links(self) == download_links(self)

\* variant: an empty list is an error, as in the check operations
get_latest_release_info_empty_err(self, resp) ==
    IF ~resp.ok THEN UpdateError_from(resp.error)
    ELSE IF Len(resp.releases) > 0
    THEN Ok(Some(<<Head(resp.releases).tag, Head(resp.releases).name>>))
    ELSE Err("GitHub", NoReleasesMsg)

get_latest_release_info(self, resp) ==
    IF ~resp.ok THEN UpdateError_from(resp.error)
    ELSE IF Len(resp.releases) > 0
    THEN LET latest_release == Head(resp.releases)
         IN  Ok(Some(<<latest_release.tag, latest_release.name>>))
    ELSE Ok(None)

\* variant: compares the stripped strings even when both parse
needs_update_string_only(self, resp) ==
    IF ~resp.ok THEN UpdateError_from(resp.error)
    ELSE IF Len(resp.releases) > 0
    THEN Ok(trim_start_matches_v(Head(resp.releases).tag)
                /= trim_start_matches_v(self.current_version))
    ELSE Err("GitHub", NoReleasesMsg)

\* variant: a version that does not parse is an error
needs_update_strict(self, resp) ==
    IF ~resp.ok THEN UpdateError_from(resp.error)
    ELSE IF Len(resp.releases) > 0
    THEN LET current_v == trim_start_matches_v(self.current_version)
             latest_v  == trim_start_matches_v(Head(resp.releases).tag)
             current   == VersionParse(current_v)
             latest    == VersionParse(latest_v)
         IN  IF current.ok /\ latest.ok
             THEN Ok(VersionGreater(latest, current))
             ELSE Err("Version", "parse")
    ELSE Err("GitHub", NoReleasesMsg)

needs_update(self, resp) ==
    IF ~resp.ok THEN UpdateError_from(resp.error)
    ELSE IF Len(resp.releases) > 0
    THEN LET latest_release == Head(resp.releases)
             current_v == trim_start_matches_v(self.current_version)
             latest_v  == trim_start_matches_v(latest_release.tag)
             current   == VersionParse(current_v)
             latest    == VersionParse(latest_v)
         IN  IF current.ok /\ latest.ok
             THEN Ok(VersionGreater(latest, current))
             ELSE Ok(latest_v /= current_v)
    ELSE Err("GitHub", NoReleasesMsg)

\* variant: a status with updated = false is reported as a failure
sync_update_not_updated_err(self, resp) ==
    IF ~resp.ok THEN UpdateError_from(resp.error)
    ELSE IF resp.updated THEN Ok(Unit) ELSE Err("Other", "up to date")

sync_update(self, resp) ==
    IF ~resp.ok THEN UpdateError_from(resp.error)
    ELSE IF resp.updated THEN Ok(Unit) ELSE Ok(Unit)

sync_check_for_updates(self, resp) ==
    IF ~resp.ok THEN UpdateError_from(resp.error)
    ELSE IF Len(resp.releases) > 0
    THEN LET latest_release  == Head(resp.releases)
             release_version == trim_start_matches_v(latest_release.tag)
             current_clean   == trim_start_matches_v(self.current_version)
         IN  Ok(release_version /= current_clean)
    ELSE Err("GitHub", NoReleasesMsg)

(***************************************************************************)
(* The updater as a state machine: one action per public operation         *)
(***************************************************************************)
\* the configurations a caller constructs the updater with or sets
Configs ==
    {UpdateConfig_new(Burncloud, Burncloud, Burncloud, v) : v \in VersionStrings}
    \cup {UpdateConfig_new(OtherName, AppName, AppName, v) : v \in {S_0_1_0, S_1_0_0, S_2_0_0}}

\* AutoUpdater::new(config); with_default_config() is new(UpdateConfig::default())
Init ==
    /\ config \in Configs
    /\ op = "new"
    /\ response = NoResponse
    /\ result = Unit
    /\ requests = 0
    /\ arg = NoArg
    /\ draft = UpdateConfig_default
    /\ prev = UpdateConfig_default
    /\ builder = [name |-> "default"]

SetConfig ==
    \E c \in Configs :
        /\ config' = c
        /\ op' = "set_config"
        /\ arg' = c
        /\ response' = NoResponse
        /\ result' = Unit
        /\ requests' = 0
        /\ UNCHANGED builderVars

CurrentVersion ==
    /\ op' = "current_version"
    /\ result' = current_version(config)
    /\ response' = NoResponse
    /\ requests' = 0
    /\ arg' = NoArg
    /\ UNCHANGED <<config, builderVars>>

GetDownloadLinks ==
    /\ op' = "get_download_links"
    /\ result' = get_download_links(config)
    /\ response' = NoResponse
    /\ requests' = 0
    /\ arg' = NoArg
    /\ UNCHANGED <<config, builderVars>>

CheckForUpdates ==
    \E resp \in ListerResponses :
        /\ op' = "check_for_updates"
        /\ response' = resp
        /\ result' = check_for_updates(config, resp)
        /\ requests' = RequestsMade(resp)
        /\ arg' = NoArg
        /\ UNCHANGED <<config, builderVars>>

SyncCheckForUpdates ==
    \E resp \in ListerResponses :
        /\ op' = "sync_check_for_updates"
        /\ response' = resp
        /\ result' = sync_check_for_updates(config, resp)
        /\ requests' = RequestsMade(resp)
        /\ arg' = NoArg
        /\ UNCHANGED <<config, builderVars>>

GetLatestReleaseInfo ==
    \E resp \in ListerResponses :
        /\ op' = "get_latest_release_info"
        /\ response' = resp
        /\ result' = get_latest_release_info(config, resp)
        /\ requests' = RequestsMade(resp)
        /\ arg' = NoArg
        /\ UNCHANGED <<config, builderVars>>

\* variant: remembers the latest tag as the current version
NeedsUpdate_caching ==
    \E resp \in ListerResponses :
        /\ op' = "needs_update"
        /\ response' = resp
        /\ result' = needs_update(config, resp)
        /\ requests' = RequestsMade(resp)
        /\ arg' = NoArg
        /\ config' = IF resp.ok /\ Len(resp.releases) > 0
                     THEN [config EXCEPT !.current_version = Head(resp.releases).tag]
                     ELSE config
        /\ UNCHANGED builderVars

NeedsUpdate ==
    \E resp \in ListerResponses :
        /\ op' = "needs_update"
        /\ response' = resp
        /\ result' = needs_update(config, resp)
        /\ requests' = RequestsMade(resp)
        /\ arg' = NoArg
        /\ UNCHANGED <<config, builderVars>>

UpdateWithFallback ==
    \E resp \in ExecutorResponses :
        /\ op' = "update_with_fallback"
        /\ response' = resp
        /\ result' = update_with_fallback(config, resp)
        /\ requests' = RequestsMade(resp)
        /\ arg' = NoArg
        /\ UNCHANGED <<config, builderVars>>

SyncUpdate ==
    \E resp \in ExecutorResponses :
        /\ op' = "sync_update"
        /\ response' = resp
        /\ result' = sync_update(config, resp)
        /\ requests' = RequestsMade(resp)
        /\ arg' = NoArg
        /\ UNCHANGED <<config, builderVars>>

Next ==
    \/ SetConfig
    \/ CurrentVersion
    \/ GetDownloadLinks
    \/ CheckForUpdates
    \/ SyncCheckForUpdates
    \/ GetLatestReleaseInfo
    \/ NeedsUpdate
    \/ UpdateWithFallback
    \/ SyncUpdate

Spec == Init /\ [][Next]_vars

(***************************************************************************)
(* The configuration builders, applied by a caller to a value it owns      *)
(***************************************************************************)
Owners       == {Burncloud, OtherName, <<"o", "w", "n", "e", "r">>}
Repos        == {Burncloud, AppName, <<"r", "e", "p", "o">>}
BinNames     == {Burncloud, AppName, <<"n", "e", "w">>}
BuildVersions == {S_0_1_0, S_1_0_0, S_2_0_0}

\* UpdateConfig::default() or UpdateConfig::new(owner, repo, bin_name, version)
InitConfig ==
    /\ draft \in {UpdateConfig_default} \cup
                 {UpdateConfig_new(o, r, b, v) :
                      o \in Owners, r \in Repos, b \in BinNames, v \in BuildVersions}
    /\ prev = draft
    /\ builder = [name |-> "new"]
    /\ config = UpdateConfig_default
    /\ op = "new"
    /\ response = NoResponse
    /\ result = Unit
    /\ requests = 0
    /\ arg = NoArg

WithGithubRepo ==
    \E o \in Owners, r \in Repos :
        /\ draft' = with_github_repo(draft, o, r)
        /\ prev' = draft
        /\ builder' = [name |-> "with_github_repo", owner |-> o, repo |-> r]
        /\ UNCHANGED updaterVars

WithBinName ==
    \E n \in BinNames :
        /\ draft' = with_bin_name(draft, n)
        /\ prev' = draft
        /\ builder' = [name |-> "with_bin_name", value |-> n]
        /\ UNCHANGED updaterVars

WithCurrentVersion ==
    \E v \in BuildVersions :
        /\ draft' = with_current_version(draft, v)
        /\ prev' = draft
        /\ builder' = [name |-> "with_current_version", value |-> v]
        /\ UNCHANGED updaterVars

NextConfig ==
    \/ WithGithubRepo
    \/ WithBinName
    \/ WithCurrentVersion

SpecConfig == InitConfig /\ [][NextConfig]_vars

(***************************************************************************)
(* Properties                                                              *)
(***************************************************************************)
ListerOps   == {"check_for_updates", "sync_check_for_updates",
                "get_latest_release_info", "needs_update"}
CheckOps    == {"check_for_updates", "sync_check_for_updates"}
ExecutorOps == {"update_with_fallback", "sync_update"}

\* the last operation got a non-empty release list
GotReleases == op \in ListerOps /\ response.ok /\ Len(response.releases) > 0
\* the last operation got an empty release list
GotNoReleases == op \in ListerOps /\ response.ok /\ Len(response.releases) = 0

LatestTag == Head(response.releases).tag

\* removal of one optional leading lowercase 'v'
StripOneV(s) == IF Len(s) > 0 /\ Head(s) = "v" THEN Tail(s) ELSE s

\* a valid semantic version of the chain, optionally prefixed by one 'v'
IsChainVersion(s) == StripOneV(s) \in ChainSet
ChainIndex(s) == CHOOSE i \in DOMAIN Chain : Chain[i] = StripOneV(s)

\* C1: needs_update on a non-empty release list, with current version a and
\* first tag b both valid semantic versions (optionally prefixed by 'v'),
\* returns true exactly when a precedes b in semantic-version precedence
\* (so false when b precedes a and false when they are the same version).
C1_NeedsUpdateSemverOrder ==
    (op = "needs_update" /\ GotReleases
        /\ IsChainVersion(config.current_version) /\ IsChainVersion(LatestTag))
    => result = Ok(ChainIndex(config.current_version) < ChainIndex(LatestTag))

\* current 1.10.0, latest v1.2.0: older by precedence, different and larger as strings
C1_Witness ==
    /\ op = "needs_update" /\ GotReleases
    /\ config.current_version = S_1_10_0
    /\ LatestTag = <<"v">> \o S_1_2_0
    /\ result = Ok(FALSE)

\* C2: on an empty release list needs_update, check_for_updates and
\* sync_check_for_updates return a GitHub error, get_latest_release_info
\* returns success with None; a non-empty list never gives that error.
C2_EmptyReleaseList ==
    /\ (GotNoReleases /\ op /= "get_latest_release_info")
           => (~result.ok /\ result.kind = "GitHub" /\ result.msg = NoReleasesMsg)
    /\ (GotNoReleases /\ op = "get_latest_release_info") => result = Ok(None)
    /\ GotReleases => result.ok

C2_Witness ==
    /\ GotNoReleases /\ op = "get_latest_release_info" /\ result = Ok(None)
    /\ needs_update(config, response) = Err("GitHub", NoReleasesMsg)

\* C3: check_for_updates and sync_check_for_updates return the same result on
\* the same configuration and response, and on a non-empty list that result
\* is true exactly when the stripped first tag differs from the stripped
\* current version, also when the tag is the older version.
C3_CheckIsStringInequality ==
    op \in CheckOps =>
        /\ check_for_updates(config, response) = sync_check_for_updates(config, response)
        /\ GotReleases =>
               result = Ok(trim_start_matches_v(LatestTag)
                               /= trim_start_matches_v(config.current_version))

\* the tag is older than the current version: the check says true, needs_update false
C3_Witness ==
    /\ op = "check_for_updates" /\ GotReleases
    /\ config.current_version = S_2_0_0
    /\ LatestTag = <<"v">> \o S_1_0_0
    /\ result = Ok(TRUE)
    /\ needs_update(config, response) = Ok(FALSE)

\* stripped strings that are not semantic versions
NotSemver == {S_latest, S_r123, S_1_0, S_01_0_0, S_V1_0_0, S_empty}

\* C4: needs_update never returns a Version error; on a non-empty list, when
\* the stripped current version or the stripped first tag is not a semantic
\* version, it returns success with (stripped latest /= stripped current).
C4_NeedsUpdateFallback ==
    op = "needs_update" =>
        /\ ~result.ok => result.kind /= "Version"
        /\ (GotReleases
              /\ (trim_start_matches_v(config.current_version) \in NotSemver
                    \/ trim_start_matches_v(LatestTag) \in NotSemver))
           => result = Ok(trim_start_matches_v(LatestTag)
                              /= trim_start_matches_v(config.current_version))

\* both fail to parse and are equal after the strip: no update, no error
C4_Witness ==
    /\ op = "needs_update" /\ GotReleases
    /\ config.current_version = S_latest
    /\ LatestTag = S_latest
    /\ result = Ok(FALSE)

\* C5: the strip applied to the current version and to the latest tag removes
\* at most one leading lowercase 'v' and nothing else.
C5_StripSingleV ==
    (op \in (CheckOps \cup {"needs_update"}) /\ GotReleases) =>
        /\ trim_start_matches_v(config.current_version) = StripOneV(config.current_version)
        /\ trim_start_matches_v(LatestTag) = StripOneV(LatestTag)

\* the kinds the error taxonomy assigns to a collaborator failure class
KindsOfClass(error) ==
    CASE error = "Network" -> {"Network"}
      [] error = "Release" -> {"GitHub"}
      [] error = "Io"      -> {"FileSystem", "Permission"}
      [] OTHER             -> {"Other", "Unknown"}

\* C6: every collaborator failure is returned as an error whose kind is the
\* one of the failure's class: Network, GitHub, FileSystem or Permission for
\* a binary-replacement failure, Other or Unknown for the rest.
C6_FailureKindByClass ==
    (op \in (ListerOps \cup ExecutorOps) /\ ~response.ok) =>
        (~result.ok /\ result.kind \in KindsOfClass(response.error))

\* C7: sync_update and update_with_fallback return the same success value
\* whether the executor's status has updated = true or updated = false, and
\* an error exactly when the executor or its configuration fails.
C7_UpdateOutcomeIndistinguishable ==
    op \in ExecutorOps =>
        /\ response.ok => result = Ok(Unit)
        /\ ~response.ok => ~result.ok

C7_Witness ==
    /\ op = "sync_update" /\ response.ok /\ ~response.updated
    /\ result = Ok(Unit)

BurncloudGithubUrl ==
    <<"h", "t", "t", "p", "s", ":", "/", "/", "g", "i", "t", "h", "u", "b", ".", "c", "o", "m", "/", "b", "u", "r", "n", "c", "l", "o", "u", "d", "/", "b", "u", "r", "n", "c", "l", "o", "u", "d", "/", "r", "e", "l", "e", "a", "s", "e", "s">>

BurncloudGiteeUrl ==
    <<"h", "t", "t", "p", "s", ":", "/", "/", "g", "i", "t", "e", "e", ".", "c", "o", "m", "/", "b", "u", "r", "n", "c", "l", "o", "u", "d", "/", "b", "u", "r", "n", "c", "l", "o", "u", "d", "/", "r", "e", "l", "e", "a", "s", "e", "s">>

\* C8: in every reachable state get_download_links can be called, makes no
\* collaborator request and returns the GitHub and Gitee release URLs of the
\* held configuration's owner and repo.
C8_DownloadLinks ==
    /\ ENABLED GetDownloadLinks
    /\ get_download_links(config) =
           <<HttpsPrefix \o GithubHost \o <<"/">> \o config.github_owner \o <<"/">>
                 \o config.github_repo \o ReleasesSuffix,
             HttpsPrefix \o GiteeHost \o <<"/">> \o config.github_owner \o <<"/">>
                 \o config.github_repo \o ReleasesSuffix>>
    /\ (config.github_owner = Burncloud /\ config.github_repo = Burncloud)
           => get_download_links(config) = <<BurncloudGithubUrl, BurncloudGiteeUrl>>
    /\ op = "get_download_links" =>
           (result = get_download_links(config) /\ requests = 0 /\ response = NoResponse)

C8_Witness ==
    /\ op = "get_download_links"
    /\ config.github_owner = Burncloud /\ config.github_repo = Burncloud
    /\ result = <<BurncloudGithubUrl, BurncloudGiteeUrl>>

\* C9: each builder replaces only its own field(s); applying a builder twice
\* with the same argument equals applying it once, applying it with x then y
\* yields y, and builders of different fields commute.
C9_BuildersFrameAndCompose ==
    /\ builder.name = "with_bin_name" =>
           draft = UpdateConfig_new(prev.github_owner, prev.github_repo,
                                    builder.value, prev.current_version)
    /\ builder.name = "with_current_version" =>
           draft = UpdateConfig_new(prev.github_owner, prev.github_repo,
                                    prev.bin_name, builder.value)
    /\ builder.name = "with_github_repo" =>
           draft = UpdateConfig_new(builder.owner, builder.repo,
                                    prev.bin_name, prev.current_version)
    /\ \A x, y \in BinNames :
           /\ with_bin_name(with_bin_name(draft, x), x) = with_bin_name(draft, x)
           /\ with_bin_name(with_bin_name(draft, x), y) = with_bin_name(draft, y)
    /\ \A x, y \in BuildVersions :
           /\ with_current_version(with_current_version(draft, x), x)
                  = with_current_version(draft, x)
           /\ with_current_version(with_current_version(draft, x), y)
                  = with_current_version(draft, y)
    /\ \A o1, o2 \in Owners, r1, r2 \in Repos :
           /\ with_github_repo(with_github_repo(draft, o1, r1), o1, r1)
                  = with_github_repo(draft, o1, r1)
           /\ with_github_repo(with_github_repo(draft, o1, r1), o2, r2)
                  = with_github_repo(draft, o2, r2)
    /\ \A n \in BinNames, v \in BuildVersions, o \in Owners, r \in Repos :
           /\ with_bin_name(with_current_version(draft, v), n)
                  = with_current_version(with_bin_name(draft, n), v)
           /\ with_bin_name(with_github_repo(draft, o, r), n)
                  = with_github_repo(with_bin_name(draft, n), o, r)
           /\ with_current_version(with_github_repo(draft, o, r), v)
                  = with_github_repo(with_current_version(draft, v), o, r)

\* with_bin_name on a value whose other fields all differ from the defaults
C9_Witness ==
    /\ builder.name = "with_bin_name"
    /\ prev.bin_name = AppName /\ draft.bin_name = <<"n", "e", "w">>
    /\ draft.current_version = S_2_0_0 /\ draft.github_owner = OtherName
    /\ draft.github_repo = AppName

\* what an operation returns, from the held configuration and the response
ResultOf(o, cfg, resp) ==
    CASE o = "set_config"              -> Unit
      [] o = "current_version"         -> cfg.current_version
      [] o = "get_download_links"      -> get_download_links(cfg)
      [] o = "check_for_updates"       -> check_for_updates(cfg, resp)
      [] o = "sync_check_for_updates"  -> sync_check_for_updates(cfg, resp)
      [] o = "get_latest_release_info" -> get_latest_release_info(cfg, resp)
      [] o = "needs_update"            -> needs_update(cfg, resp)
      [] o = "update_with_fallback"    -> update_with_fallback(cfg, resp)
      [] o = "sync_update"             -> sync_update(cfg, resp)

C10_Step ==
    /\ config' /= config => op' = "set_config"
    /\ op' = "set_config" => config' = arg'
    /\ requests' <= 1
    /\ (op' \in (ListerOps \cup ExecutorOps) /\ response'.ok) => requests' = 1
    /\ op' \notin (ListerOps \cup ExecutorOps) => requests' = 0
    /\ result' = ResultOf(op', config', response')

\* C10: the held configuration changes only through set_config, which
\* replaces it as a whole; every other operation leaves it unchanged, makes
\* at most one collaborator request, and returns a result determined by the
\* configuration held at that moment and that call's response.
C10_StatelessPerCall == [][C10_Step]_vars

\* after set_config the accessor returns the new version
C10_Witness ==
    /\ op = "current_version"
    /\ config.current_version = S_2_0_0 /\ config.github_owner = OtherName
    /\ result = S_2_0_0

====
